---- MODULE Spec2Model ----
(***************************************************************************)
(* BuildFileDefaultsParserState (pants/engine/internals/defaults.py): the  *)
(* `__defaults__` engine of a BUILD file.  An engine is created from the   *)
(* frozen defaults of the closest parent BUILD file, set_defaults is       *)
(* called by the statements of the file, and get_frozen_defaults yields    *)
(* the BuildFileDefaults handed to the targets of the file and to the      *)
(* BUILD files below it.                                                   *)
(*                                                                         *)
(* Python values are modelled as follows.                                  *)
(*   dict / FrozenDict   a function whose DOMAIN is the set of keys        *)
(*   a raw field value   [type |-> <python type name>, v |-> <content>]    *)
(*   a directive value   [isdict |-> TRUE, items |-> <dict>], or           *)
(*                       [isdict |-> FALSE, typename |-> <type name>]      *)
(*   a positional arg    [isdict |-> TRUE, items |-> <sequence of entries, *)
(*                       in the dict's insertion order>], or a non-dict    *)
(*   a dict key          [tuple |-> BOOLEAN, names |-> <aliases in order>] *)
(*                                                                         *)
(* The variables parent .. frozen follow one engine, whose dicts are held   *)
(* by value.  Where several engines are created from one table (shared,    *)
(* sib) the dicts are objects: a dict of fields is held by reference, so    *)
(* that a write through a reference to a dict of the table is a write to    *)
(* the table.                                                              *)
(***************************************************************************)
EXTENDS Naturals, Sequences, FiniteSets, TLC

VARIABLES
    parent,     \* the BuildFileDefaults `create` was given
    defaults,   \* self.defaults, the working defaults
    pc,         \* where the BUILD file's evaluation stands
    call,       \* the arguments of the latest set_defaults call
    pre,        \* self.defaults when that call was entered
    acc,        \* the local `defaults` dict of that call when the call was left
    err,        \* what that call raised (NoError when it returned)
    frozen,     \* what the latest get_frozen_defaults returned or raised
    shared,     \* the table object that sibling BUILD files were created from
    sib         \* the engines of the sibling BUILD files

vars == <<parent, defaults, pc, call, pre, acc, err, frozen, shared, sib>>

---------------------------------------------------------------------------
(* Bounds of the model. *)

\* the directives of one set_defaults call (the positional ones and the `all`
\* mapping), at most
MaxArgs == 2

---------------------------------------------------------------------------
(* Python values. *)

EmptyDict == [x \in {} |-> x]

List(s) == [type |-> "list", v |-> s]
Tuple(s) == [type |-> "tuple", v |-> s]
Str(s) == [type |-> "str", v |-> s]

Dict(d) == [isdict |-> TRUE, items |-> d]
NonDict(t) == [isdict |-> FALSE, typename |-> t]
None == NonDict("NoneType")

Key(a) == [tuple |-> FALSE, names |-> <<a>>]
TupleKey(as) == [tuple |-> TRUE, names |-> as]

---------------------------------------------------------------------------
(* The registry: RegisteredTargetTypes and the field types of its targets. *)

\* Field types, by alias: the class of the field decides its compute_value.
\* The fields of the two targets whose aliases are set in other files (the
\* source field and the Jvm fields) are left out: no directive of the model
\* names them.
FieldTypes ==
    { [alias |-> "tags", deprecated_alias |-> "", cls |-> "StringSequenceField"],
      [alias |-> "description", deprecated_alias |-> "", cls |-> "StringField"],
      [alias |-> "dependencies", deprecated_alias |-> "", cls |-> "StringSequenceField"],
      [alias |-> "scalac_plugins", deprecated_alias |-> "", cls |-> "StringSequenceField"],
      [alias |-> "artifact", deprecated_alias |-> "", cls |-> "StringField"],
      [alias |-> "plugin_name", deprecated_alias |-> "", cls |-> "StringField"] }

COMMON_TARGET_FIELDS == {"tags", "description"}

\* ScalaSourceTarget.core_fields, by alias
ScalaSourceTarget ==
    COMMON_TARGET_FIELDS \cup {"dependencies", "scalac_plugins"}

\* ScalacPluginTarget.core_fields, by alias
ScalacPluginTarget ==
    COMMON_TARGET_FIELDS \cup {"artifact", "plugin_name"}

\* registered_target_types.aliases_to_types
aliases_to_types ==
    "scala_source" :> ScalaSourceTarget @@ "scalac_plugin" :> ScalacPluginTarget

\* registered_target_types.aliases, in their (sorted) order
aliases == <<"scala_source", "scalac_plugin">>

\* The plugin fields that union_membership registers, and the targets it
\* registers them on: one field, which has a deprecated alias.
PluginFieldTypes ==
    { [alias |-> "resolve", deprecated_alias |-> "compatible_resolves",
       cls |-> "StringField"] }

union_membership == "scalac_plugin" :> {"resolve"}

\* target_type.class_field_types(union_membership): the core fields of the
\* target and the plugin fields registered on it
class_field_types(target_alias) ==
    { ft \in FieldTypes : ft.alias \in aliases_to_types[target_alias] }
        \cup { ft \in PluginFieldTypes :
                 /\ target_alias \in DOMAIN union_membership
                 /\ ft.alias \in union_membership[target_alias] }

\* target_type._get_field_aliases_to_field_types(...).keys(), for every target
\* type: the aliases of its field types and their deprecated aliases
field_aliases_to_field_types ==
    [target_alias \in DOMAIN aliases_to_types |->
        UNION { {ft.alias} \cup (IF ft.deprecated_alias = "" THEN {}
                                 ELSE {ft.deprecated_alias})
                : ft \in class_field_types(target_alias) }]

\* set(target_type._get_field_aliases_to_field_types(...).keys())
valid_field_aliases(target_alias) == field_aliases_to_field_types[target_alias]

\* field_type.compute_value(raw_value, address): Ok(value) or Raise
CoercionError(alias, raw) ==
    [error |-> "InvalidFieldException", field |-> alias, raw |-> raw]

compute_value(ft, raw) ==
    IF ft.cls = "StringSequenceField"
    THEN IF raw.type \in {"list", "tuple"}
         THEN [ok |-> TRUE, value |-> Tuple(raw.v)]
         ELSE [ok |-> FALSE, value |-> CoercionError(ft.alias, raw)]
    ELSE IF raw.type = "str"
         THEN [ok |-> TRUE, value |-> raw]
         ELSE [ok |-> FALSE, value |-> CoercionError(ft.alias, raw)]

---------------------------------------------------------------------------
(* What set_defaults raises. *)

NoError == [error |-> "none"]

\* "Expected dictionary mapping targets to default field values ... but got: <type>."
ExpectedDictError(targets_defaults) ==
    [error |-> "ValueError", reason |-> "expected dictionary",
     typename |-> targets_defaults.typename]

\* "Invalid default field values ... for target type <target>, must be an `dict` but
\* was <default> with type `<type>`."
InvalidDefaultError(target, default) ==
    [error |-> "ValueError", reason |-> "invalid default field values",
     target |-> target, typename |-> default.typename]

\* "Unrecognized target type <target_alias> in <address>."
UnrecognizedTargetError(target_alias) ==
    [error |-> "ValueError", reason |-> "unrecognized target type",
     target_alias |-> target_alias]

\* "Unrecognized field `<field_alias>` for target <alias>. Valid fields are: ..."
UnrecognizedFieldError(field_alias, target_alias) ==
    [error |-> "InvalidFieldException", reason |-> "unrecognized field",
     field_alias |-> field_alias, target_alias |-> target_alias,
     valid |-> valid_field_aliases(target_alias)]

---------------------------------------------------------------------------
(* _process_defaults *)

\* dict.get(key, {})
Get(d, key) == IF key \in DOMAIN d THEN d[key] ELSE EmptyDict

\* Update as dict.setdefault would do it: a key the dict holds keeps its value
UpdateKeepExisting(d, other) == d @@ other

\* the dict  d  after  d.update(other)
Update(d, other) == other @@ d

\* the dict  d  after  d[key] = value
SetItem(d, key, value) == (key :> value) @@ d

\* MergeDefaults with the setdefault left out when there is no value to merge
MergeDefaultsSkipEmpty(scratch, target_alias, raw_values) ==
    IF raw_values = EmptyDict THEN scratch
    ELSE SetItem(scratch, target_alias, Update(Get(scratch, target_alias), raw_values))

\* MergeDefaults with the empty mapping taken as a reset of the kind
MergeDefaultsResetOnEmpty(scratch, target_alias, raw_values) ==
    IF raw_values = EmptyDict THEN SetItem(scratch, target_alias, EmptyDict)
    ELSE SetItem(scratch, target_alias, Update(Get(scratch, target_alias), raw_values))

\* defaults.setdefault(target_type.alias, {}).update(raw_values)
MergeDefaults(scratch, target_alias, raw_values) ==
    SetItem(scratch, target_alias, Update(Get(scratch, target_alias), raw_values))

\* DropUnknownFields without the `del raw_values[field_alias]`
KeepUnknownFields(default, valid) == default

\* raw_values once the loop over default.keys() has deleted the unknown fields
\* (ignore_unknown_fields is set)
DropUnknownFields(default, valid) ==
    [f \in (DOMAIN default) \cap valid |-> default[f]]

\* ProcessAliases with `continue` in the place of the ValueError: an alias that
\* is not registered is skipped
RECURSIVE ProcessAliasesLenient(_, _, _, _, _)
ProcessAliasesLenient(scratch, names, i, default, ignore_unknown_fields) ==
    IF i > Len(names) THEN [defaults |-> scratch, err |-> NoError]
    ELSE LET target_alias == names[i] IN
         IF target_alias \notin DOMAIN aliases_to_types
         THEN ProcessAliasesLenient(scratch, names, i + 1, default, ignore_unknown_fields)
         ELSE LET valid == valid_field_aliases(target_alias)
                  unknown == (DOMAIN default) \ valid
              IN  IF unknown # {} /\ ~ignore_unknown_fields
                  THEN [defaults |-> scratch,
                        err |-> UnrecognizedFieldError(CHOOSE f \in unknown : TRUE,
                                                       target_alias)]
                  ELSE ProcessAliasesLenient(
                           MergeDefaults(scratch, target_alias,
                                         IF ignore_unknown_fields
                                         THEN DropUnknownFields(default, valid)
                                         ELSE default),
                           names, i + 1, default, ignore_unknown_fields)

\* ProcessAliases with the loop left after the first alias of the key
RECURSIVE ProcessAliasesFirstOnly(_, _, _, _, _)
ProcessAliasesFirstOnly(scratch, names, i, default, ignore_unknown_fields) ==
    IF i > 1 \/ i > Len(names) THEN [defaults |-> scratch, err |-> NoError]
    ELSE LET target_alias == names[i] IN
         IF target_alias \notin DOMAIN aliases_to_types
         THEN [defaults |-> scratch, err |-> UnrecognizedTargetError(target_alias)]
         ELSE LET valid == valid_field_aliases(target_alias)
                  unknown == (DOMAIN default) \ valid
              IN  IF unknown # {} /\ ~ignore_unknown_fields
                  THEN [defaults |-> scratch,
                        err |-> UnrecognizedFieldError(CHOOSE f \in unknown : TRUE,
                                                       target_alias)]
                  ELSE ProcessAliasesFirstOnly(
                           MergeDefaults(scratch, target_alias,
                                         IF ignore_unknown_fields
                                         THEN DropUnknownFields(default, valid)
                                         ELSE default),
                           names, i + 1, default, ignore_unknown_fields)

\* ProcessAliases with every alias of the key looked up in the registry before
\* the fields are validated for any of them
RECURSIVE ProcessAliasesKindsFirst(_, _, _, _, _)
ProcessAliasesKindsFirst(scratch, names, i, default, ignore_unknown_fields) ==
    IF i > Len(names) THEN [defaults |-> scratch, err |-> NoError]
    ELSE LET target_alias == names[i]
             unregistered == { j \in i..Len(names) : names[j] \notin DOMAIN aliases_to_types }
         IN
         IF unregistered # {}
         THEN [defaults |-> scratch,
               err |-> UnrecognizedTargetError(
                           names[CHOOSE j \in unregistered : \A l \in unregistered : j <= l])]
         ELSE LET valid == valid_field_aliases(target_alias)
                  unknown == (DOMAIN default) \ valid
              IN  IF unknown # {} /\ ~ignore_unknown_fields
                  THEN [defaults |-> scratch,
                        err |-> UnrecognizedFieldError(CHOOSE f \in unknown : TRUE,
                                                       target_alias)]
                  ELSE ProcessAliasesKindsFirst(
                           MergeDefaults(scratch, target_alias,
                                         IF ignore_unknown_fields
                                         THEN DropUnknownFields(default, valid)
                                         ELSE default),
                           names, i + 1, default, ignore_unknown_fields)

\* The body of the loop over the aliases of one entry, from index i on.  The
\* loop over default.keys() raises at the first field that is not valid; the
\* directives of this model hold at most one such field per target.
RECURSIVE ProcessAliases(_, _, _, _, _)
ProcessAliases(scratch, names, i, default, ignore_unknown_fields) ==
    IF i > Len(names) THEN [defaults |-> scratch, err |-> NoError]
    ELSE LET target_alias == names[i] IN
         IF target_alias \notin DOMAIN aliases_to_types
         THEN [defaults |-> scratch, err |-> UnrecognizedTargetError(target_alias)]
         ELSE LET valid == valid_field_aliases(target_alias)
                  unknown == (DOMAIN default) \ valid
              IN  IF unknown # {} /\ ~ignore_unknown_fields
                  THEN [defaults |-> scratch,
                        err |-> UnrecognizedFieldError(CHOOSE f \in unknown : TRUE,
                                                       target_alias)]
                  ELSE ProcessAliases(
                           MergeDefaults(scratch, target_alias,
                                         IF ignore_unknown_fields
                                         THEN DropUnknownFields(default, valid)
                                         ELSE default),
                           names, i + 1, default, ignore_unknown_fields)

\* The loop over targets_defaults.items(), from index i on.
RECURSIVE ProcessEntries(_, _, _, _)
ProcessEntries(scratch, entries, i, ignore_unknown_fields) ==
    IF i > Len(entries) THEN [defaults |-> scratch, err |-> NoError]
    ELSE LET target == entries[i].target
             default == entries[i].default
         IN  IF ~default.isdict
             THEN [defaults |-> scratch, err |-> InvalidDefaultError(target, default)]
             ELSE LET r == ProcessAliases(scratch, target.names, 1, default.items,
                                          ignore_unknown_fields)
                  IN  IF r.err # NoError THEN r
                      ELSE ProcessEntries(r.defaults, entries, i + 1,
                                          ignore_unknown_fields)

\* process_defaults with ignore_unknown_fields taken as set
process_defaults_ignoring(scratch, targets_defaults, ignore_unknown_fields) ==
    IF ~targets_defaults.isdict
    THEN [defaults |-> scratch, err |-> ExpectedDictError(targets_defaults)]
    ELSE ProcessEntries(scratch, targets_defaults.items, 1, TRUE)

\* process_defaults without the isinstance check of targets_defaults: what is
\* not a dict holds no entry
process_defaults_unchecked(scratch, targets_defaults, ignore_unknown_fields) ==
    IF ~targets_defaults.isdict
    THEN [defaults |-> scratch, err |-> NoError]
    ELSE ProcessEntries(scratch, targets_defaults.items, 1, ignore_unknown_fields)

\* _process_defaults(defaults, targets_defaults, ignore_unknown_fields): the scratch
\* dict as the call leaves it, and what the call raised.
process_defaults(scratch, targets_defaults, ignore_unknown_fields) ==
    IF ~targets_defaults.isdict
    THEN [defaults |-> scratch, err |-> ExpectedDictError(targets_defaults)]
    ELSE ProcessEntries(scratch, targets_defaults.items, 1, ignore_unknown_fields)

---------------------------------------------------------------------------
(* set_defaults *)

\* InitialDefaults with `extend` taken as set
InitialDefaultsExtend(self_defaults, extend) ==
    [k \in DOMAIN self_defaults |-> self_defaults[k]]

\* InitialDefaults with the kinds copied and their fields not:
\* dict.fromkeys(self.defaults, {})
InitialDefaultsKeysOnly(self_defaults, extend) ==
    IF ~extend THEN EmptyDict ELSE [k \in DOMAIN self_defaults |-> EmptyDict]

\* InitialDefaults with `extend` taken as not set
InitialDefaultsEmpty(self_defaults, extend) == EmptyDict

\* {} if not extend else {k: dict(v) for k, v in self.defaults.items()}
InitialDefaults(self_defaults, extend) ==
    IF ~extend THEN EmptyDict ELSE [k \in DOMAIN self_defaults |-> self_defaults[k]]

\* if all is not None: self._process_defaults(defaults, {tuple(aliases): all}, True)
ProcessAll(scratch, all) ==
    IF all = None THEN [defaults |-> scratch, err |-> NoError]
    ELSE process_defaults(
             scratch,
             Dict(<< [target |-> TupleKey(aliases), default |-> all] >>),
             TRUE)

\* for arg in args: self._process_defaults(defaults, arg), from index i on
RECURSIVE ProcessArgs(_, _, _)
ProcessArgs(scratch, args, i) ==
    IF i > Len(args) THEN [defaults |-> scratch, err |-> NoError]
    ELSE LET r == process_defaults(scratch, args[i], FALSE)
         IN  IF r.err # NoError THEN r ELSE ProcessArgs(r.defaults, args, i + 1)

\* UpdateDefaults as the assignment of the non-empty entries of the scratch dict
UpdateReplace(self_defaults, scratch) ==
    [tgt \in { t \in DOMAIN scratch : scratch[t] # EmptyDict } |-> scratch[tgt]]

\* UpdateDefaults without the pop: self.defaults[tgt] = default for every target
UpdateKeepEmpty(self_defaults, scratch) ==
    [tgt \in (DOMAIN self_defaults) \cup (DOMAIN scratch) |->
        IF tgt \in DOMAIN scratch THEN scratch[tgt] ELSE self_defaults[tgt]]

\* The loop over defaults.items() that ends set_defaults: a target without any
\* default value is popped from self.defaults, any other is set.
UpdateDefaults(self_defaults, scratch) ==
    LET dropped == { tgt \in DOMAIN scratch : scratch[tgt] = EmptyDict }
        kept == ((DOMAIN self_defaults) \cup (DOMAIN scratch)) \ dropped
    IN  [tgt \in kept |-> IF tgt \in DOMAIN scratch THEN scratch[tgt]
                          ELSE self_defaults[tgt]]

\* Commit with the final loop run in a `finally`: on an exception too
CommitOnError(self_defaults, result) ==
    [tgt \in (((DOMAIN self_defaults) \cup (DOMAIN result.defaults))
                \ { t \in DOMAIN result.defaults : result.defaults[t] = EmptyDict }) |->
        IF tgt \in DOMAIN result.defaults THEN result.defaults[tgt]
        ELSE self_defaults[tgt]]

\* Commit as `self.defaults = defaults`
CommitReplace(self_defaults, result) ==
    IF result.err # NoError THEN self_defaults ELSE result.defaults

\* self.defaults when set_defaults is left with `result`, the scratch dict and
\* the exception of the directives' processing: an exception leaves the method
\* before its final loop.
Commit(self_defaults, result) ==
    IF result.err # NoError THEN self_defaults
    ELSE UpdateDefaults(self_defaults, result.defaults)

\* set_defaults with the `all` mapping processed after the positional directives
set_defaults_all_last(self_defaults, args, all, extend) ==
    LET r0 == ProcessArgs(InitialDefaults(self_defaults, extend), args, 1)
        r1 == IF r0.err # NoError THEN r0 ELSE ProcessAll(r0.defaults, all)
    IN  [defaults |-> Commit(self_defaults, r1), err |-> r1.err, scratch |-> r1.defaults]

\* set_defaults(*args, all=all, extend=extend): self.defaults afterwards and
\* what the call raised.
set_defaults(self_defaults, args, all, extend) ==
    LET r0 == ProcessAll(InitialDefaults(self_defaults, extend), all)
        r1 == IF r0.err # NoError THEN r0 ELSE ProcessArgs(r0.defaults, args, 1)
    IN  [defaults |-> Commit(self_defaults, r1), err |-> r1.err, scratch |-> r1.defaults]

---------------------------------------------------------------------------
(* get_frozen_defaults *)

\* the field types of the target that answer to field_alias
MatchingFieldTypes(target_alias, field_alias) ==
    { ft \in class_field_types(target_alias) :
        field_alias \in {ft.alias, ft.deprecated_alias} }

\* FrozenItems with field_alias, the key of self.defaults, as the key
FrozenItemsByGivenAlias(target_alias, fields) ==
    UNION { { [alias |-> field_alias, computed |-> compute_value(ft, fields[field_alias])] :
                ft \in MatchingFieldTypes(target_alias, field_alias) } :
            field_alias \in DOMAIN fields }

\* the (field_type.alias, compute_value(...)) pairs of one target's FrozenDict
FrozenItems(target_alias, fields) ==
    UNION { { [alias |-> ft.alias, computed |-> compute_value(ft, fields[field_alias])] :
                ft \in MatchingFieldTypes(target_alias, field_alias) } :
            field_alias \in DOMAIN fields }

\* FrozenDict({field_type.alias: field_type.compute_value(...) ...})
FrozenFields(target_alias, fields) ==
    LET items == FrozenItems(target_alias, fields)
    IN  [a \in { it.alias : it \in items } |->
            (CHOOSE it \in items : it.alias = a).computed.value]

\* get_frozen_defaults with the values that compute_value rejects left out
get_frozen_defaults_lenient(self_defaults) ==
    [ok |-> TRUE,
     value |-> [t \in DOMAIN self_defaults |->
                  LET items == { it \in FrozenItems(t, self_defaults[t]) : it.computed.ok }
                  IN  [a \in { it.alias : it \in items } |->
                          (CHOOSE it \in items : it.alias = a).computed.value]]]

\* get_frozen_defaults(): the BuildFileDefaults, or the exception of the first
\* compute_value that raises.
get_frozen_defaults(self_defaults) ==
    LET failed == { it \in UNION { FrozenItems(t, self_defaults[t]) :
                                     t \in DOMAIN self_defaults } : ~it.computed.ok }
    IN  IF failed # {}
        THEN [ok |-> FALSE, value |-> (CHOOSE it \in failed : TRUE).computed.value]
        ELSE [ok |-> TRUE,
              value |-> [t \in DOMAIN self_defaults |->
                            FrozenFields(t, self_defaults[t])]]

---------------------------------------------------------------------------
(* The arguments the BUILD files of the model give to set_defaults. *)

\* the field aliases the directives use
InputFields == {"tags", "plugin_name"}

\* the raw values the directives give to a field: Str("a") is no value of `tags`
InputValues(field_alias) ==
    IF field_alias = "tags" THEN {List("a"), List("b"), Str("a")} ELSE {Str("a")}

\* the field mappings of the directives: the empty one and those of one field
\* (a directive gives a target several fields by naming it several times)
FieldMaps ==
    {EmptyDict} \cup
    UNION { { f :> v : v \in InputValues(f) } : f \in InputFields }

\* what a directive maps a key to, and what `all` is given
DirectiveValues == { Dict(m) : m \in FieldMaps } \cup {NonDict("tuple")}

\* the keys of the directives
Keys ==
    { Key("scala_source"), Key("scalac_plugin"), Key("unknown_target"),
      TupleKey(<<"scala_source", "scalac_plugin">>),
      TupleKey(<<"scalac_plugin", "unknown_target">>) }

Entries == [target : Keys, default : DirectiveValues]

\* a positional argument: a dict of at most one entry, or a list
Directives ==
    {NonDict("list"), Dict(<<>>)} \cup { Dict(<<e>>) : e \in Entries }

\* the calls: the positional directives and the `all` mapping of one call are
\* MaxArgs at most
Calls ==
    { c \in [args : UNION { [1..n -> Directives] : n \in 0..MaxArgs },
             all : {None} \cup DirectiveValues,
             extend : BOOLEAN] :
        Len(c.args) + (IF c.all = None THEN 0 ELSE 1) <= MaxArgs }

\* The arguments of the calls with several faults.  A directive holds entries
\* under distinct keys, as a dict does; a key names a registered kind, one that
\* is not registered, or both; a value is a mapping valid for the registered
\* kind, one with a field the kind lacks, or no mapping.
MaxOrderEntries == 2

OrderKeys ==
    { Key("scala_source"), Key("unknown_target"),
      TupleKey(<<"scala_source", "unknown_target">>) }

OrderValues ==
    { Dict("tags" :> List("a")), Dict("plugin_name" :> Str("a")), NonDict("tuple") }

OrderEntries == [target : OrderKeys, default : OrderValues]

OrderDirectives ==
    {NonDict("list")} \cup
    { Dict(items) :
        items \in { s \in UNION { [1..n -> OrderEntries] : n \in 0..MaxOrderEntries } :
                      \A i, j \in DOMAIN s : i # j => s[i].target # s[j].target } }

\* what a positional directive counts for: its entries, and one at least
Weight(d) == IF d.isdict /\ Len(d.items) > 1 THEN Len(d.items) ELSE 1

\* the sequences of directives that count for n at most
RECURSIVE OrderArgs(_)
OrderArgs(n) ==
    {<<>>} \cup
    UNION { { <<d>> \o rest : rest \in OrderArgs(n - Weight(d)) } :
              d \in { x \in OrderDirectives : Weight(x) <= n } }

\* the calls: the positional directives count for MaxOrderEntries at most
OrderCalls ==
    [args : OrderArgs(MaxOrderEntries),
     all : {None, NonDict("str"), Dict("plugin_name" :> Str("a"))},
     extend : BOOLEAN]

\* The arguments of the BUILD files that hold several statements: the fields
\* are `tags` and the deprecated alias of the plugin field, and a call has one
\* directive, or an `all` mapping, or neither.
SeqInputFields == {"tags", "compatible_resolves"}

SeqInputValues(field_alias) ==
    IF field_alias = "tags" THEN {List("a"), Str("a")} ELSE {Str("a")}

SeqFieldMaps ==
    {EmptyDict} \cup
    UNION { { f :> v : v \in SeqInputValues(f) } : f \in SeqInputFields }

SeqDirectiveValues == { Dict(m) : m \in SeqFieldMaps } \cup {NonDict("tuple")}

SeqKeys ==
    { Key("scala_source"), Key("scalac_plugin"),
      TupleKey(<<"scalac_plugin", "unknown_target">>) }

SeqDirectives ==
    {NonDict("list"), Dict(<<>>)} \cup
    { Dict(<< [target |-> k, default |-> d] >>) : k \in SeqKeys, d \in SeqDirectiveValues }

SeqCalls ==
    [args : {<<>>}, all : {None} \cup SeqDirectiveValues, extend : BOOLEAN]
        \cup [args : { <<d>> : d \in SeqDirectives }, all : {None}, extend : BOOLEAN]

---------------------------------------------------------------------------
(* The evaluation of BUILD files, from the root of the tree downwards. *)

NoCall == [none |-> TRUE]
NotFrozen == [none |-> TRUE]

\* the sibling BUILD files, and the engine of one that is not parsed yet
Siblings == {1, 2}
NotCreated == [created |-> FALSE]

\* The root BUILD file: create("", BuildFileDefaults({}), ...)
Init ==
    /\ parent = EmptyDict
    /\ defaults = EmptyDict
    /\ pc = "ready"
    /\ call = NoCall
    /\ pre = EmptyDict
    /\ acc = EmptyDict
    /\ err = NoError
    /\ frozen = NotFrozen
    /\ shared = [outer |-> EmptyDict, inner |-> EmptyDict]
    /\ sib = [e \in Siblings |-> NotCreated]

\* The `__defaults__(...)` statement of the BUILD file.
SetDefaults(c) ==
    /\ pc = "ready"
    /\ LET r == set_defaults(defaults, c.args, c.all, c.extend)
       IN  /\ defaults' = r.defaults
           /\ acc' = r.scratch
           /\ err' = r.err
    /\ call' = c
    /\ pre' = defaults
    /\ pc' = "returned"
    /\ UNCHANGED <<parent, frozen, shared, sib>>

\* get_frozen_defaults(), once the statements of the BUILD file are evaluated:
\* an exception of set_defaults ends the evaluation of the file.
GetFrozenDefaults ==
    /\ pc \in {"ready", "returned"}
    /\ err = NoError
    /\ frozen' = get_frozen_defaults(defaults)
    /\ pc' = "frozen"
    /\ UNCHANGED <<parent, defaults, call, pre, acc, err, shared, sib>>

\* Create with self.defaults left empty
CreateUnseeded ==
    /\ pc = "frozen"
    /\ frozen.ok
    /\ parent' = frozen.value
    /\ defaults' = EmptyDict
    /\ pc' = "ready"
    /\ call' = NoCall
    /\ pre' = EmptyDict
    /\ acc' = EmptyDict
    /\ err' = NoError
    /\ frozen' = NotFrozen
    /\ UNCHANGED <<shared, sib>>

\* A BUILD file below this one: create(path, defaults, ...) with the frozen
\* defaults of this one.
Create ==
    /\ pc = "frozen"
    /\ frozen.ok
    /\ parent' = frozen.value
    /\ defaults' = [k \in DOMAIN frozen.value |-> frozen.value[k]]
    /\ pc' = "ready"
    /\ call' = NoCall
    /\ pre' = EmptyDict
    /\ acc' = EmptyDict
    /\ err' = NoError
    /\ frozen' = NotFrozen
    /\ UNCHANGED <<shared, sib>>

\* NextSetDefaults with the scratch dict of extend=True taken from the defaults
\* that `create` was given
NextSetDefaultsFromParent(c) ==
    /\ pc \in {"ready", "returned", "frozen"}
    /\ err = NoError
    /\ pc = "frozen" => frozen.ok
    /\ LET r0 == ProcessAll(InitialDefaults(parent, c.extend), c.all)
           r1 == IF r0.err # NoError THEN r0 ELSE ProcessArgs(r0.defaults, c.args, 1)
       IN  /\ defaults' = Commit(defaults, r1)
           /\ acc' = r1.defaults
           /\ err' = r1.err
    /\ call' = c
    /\ pre' = defaults
    /\ pc' = "returned"
    /\ UNCHANGED <<parent, frozen, shared, sib>>

\* A `__defaults__(...)` statement of a BUILD file that holds several: the
\* engine is the one the statements before left.
NextSetDefaults(c) ==
    /\ pc \in {"ready", "returned", "frozen"}
    /\ err = NoError
    /\ pc = "frozen" => frozen.ok
    /\ LET r == set_defaults(defaults, c.args, c.all, c.extend)
       IN  /\ defaults' = r.defaults
           /\ acc' = r.scratch
           /\ err' = r.err
    /\ call' = c
    /\ pre' = defaults
    /\ pc' = "returned"
    /\ UNCHANGED <<parent, frozen, shared, sib>>

\* NextGetFrozenDefaults with the values computed stored in self.defaults
FreezeInPlace ==
    /\ pc \in {"ready", "returned", "frozen"}
    /\ err = NoError
    /\ pc = "frozen" => frozen.ok
    /\ frozen' = get_frozen_defaults(defaults)
    /\ defaults' = IF frozen'.ok THEN frozen'.value ELSE defaults
    /\ pc' = "frozen"
    /\ UNCHANGED <<parent, call, pre, acc, err, shared, sib>>

\* get_frozen_defaults() at any point of the BUILD file, also right after
\* another get_frozen_defaults()
NextGetFrozenDefaults ==
    /\ pc \in {"ready", "returned", "frozen"}
    /\ err = NoError
    /\ pc = "frozen" => frozen.ok
    /\ frozen' = get_frozen_defaults(defaults)
    /\ pc' = "frozen"
    /\ UNCHANGED <<parent, defaults, call, pre, acc, err, shared, sib>>

Next ==
    \/ pc = "ready" /\ \E c \in Calls : SetDefaults(c)
    \/ GetFrozenDefaults
    \/ Create

Spec == Init /\ [][Next]_vars

\* BUILD files of several statements, get_frozen_defaults at any point
NextSeq ==
    \/ \E c \in SeqCalls : NextSetDefaults(c)
    \/ NextGetFrozenDefaults
    \/ Create

SpecSeq == Init /\ [][NextSeq]_vars

\* The chains of BUILD files whose call may hold several faults.
NextOrder ==
    \/ pc = "ready" /\ \E c \in OrderCalls : SetDefaults(c)
    \/ GetFrozenDefaults
    \/ Create

SpecOrder == Init /\ [][NextOrder]_vars

---------------------------------------------------------------------------
(* Sibling BUILD files: engines created from one frozen table, their calls  *)
(* interleaved.  The table is an object: `shared.outer` is its dict, from    *)
(* kind to reference, and `shared.inner` holds the FrozenDict it was built  *)
(* with for each kind.  An engine holds its dict self.defaults as           *)
(* `outer` (whose dict it is) and `items` (kind to reference).              *)

\* the calls one sibling makes, at most
MaxSiblingCalls == 2

\* a reference to the FrozenDict the table was built with for kind k, and a
\* reference to a dict that an engine made
ParentRef(k) == [owner |-> "parent", kind |-> k]
OwnRef(fields) == [owner |-> "own", fields |-> fields]

Deref(r) == IF r.owner = "parent" THEN shared.inner[r.kind] ELSE r.fields

\* the dict of references `items`, by value
Contents(items) == [k \in DOMAIN items |-> Deref(items[k])]

\* the dict self.defaults of engine e
SelfItems(e) == IF sib[e].outer = "parent" THEN shared.outer ELSE sib[e].items

\* ScratchRefs as dict(self.defaults): the dicts of fields are not copied
ScratchRefsShallow(self_items, extend) ==
    IF ~extend THEN EmptyDict ELSE self_items

\* The dicts of fields the scratch dict of set_defaults starts with:
\* {k: dict(v) for k, v in self.defaults.items()} makes a new dict of each.
ScratchRefs(self_items, extend) ==
    IF ~extend THEN EmptyDict
    ELSE [k \in DOMAIN self_items |-> OwnRef(Deref(self_items[k]))]

\* the calls of the siblings: an update of one kind with extend=True, the reset
\* of a kind, an `all` mapping, a call that raises at the second alias of a
\* tuple, and a call without any directive
SiblingCalls ==
    { [args |-> << Dict(<< [target |-> Key("scalac_plugin"),
                            default |-> Dict("tags" :> List("b"))] >>) >>,
       all |-> None, extend |-> TRUE],
      [args |-> << Dict(<< [target |-> Key("scala_source"),
                            default |-> Dict(EmptyDict)] >>) >>,
       all |-> None, extend |-> FALSE],
      [args |-> <<>>, all |-> Dict("tags" :> List("a")), extend |-> FALSE],
      [args |-> << Dict(<< [target |-> TupleKey(<<"scalac_plugin", "unknown_target">>),
                            default |-> Dict("tags" :> List("b"))] >>) >>,
       all |-> None, extend |-> TRUE],
      [args |-> <<>>, all |-> None, extend |-> TRUE] }

\* the tables the siblings are created from: those that the root BUILD file
\* freezes to after one of these calls
SiblingParents ==
    { get_frozen_defaults(set_defaults(EmptyDict, c.args, c.all, c.extend).defaults).value :
        c \in { x \in SiblingCalls :
                  set_defaults(EmptyDict, x.args, x.all, x.extend).err = NoError } }
        \ {EmptyDict}

InitSiblings ==
    /\ parent \in SiblingParents
    /\ shared = [outer |-> [k \in DOMAIN parent |-> ParentRef(k)], inner |-> parent]
    /\ sib = [e \in Siblings |-> NotCreated]
    /\ defaults = EmptyDict
    /\ pc = "ready"
    /\ call = NoCall
    /\ pre = EmptyDict
    /\ acc = EmptyDict
    /\ err = NoError
    /\ frozen = NotFrozen

\* CreateSibling with defaults=defaults: self.defaults is the dict of the table
CreateSiblingAliased(e) ==
    /\ ~sib[e].created
    /\ sib' = [sib EXCEPT ![e] = [created |-> TRUE, outer |-> "parent",
                                  items |-> shared.outer, calls |-> <<>>,
                                  err |-> NoError, result |-> NotFrozen]]
    /\ UNCHANGED <<parent, defaults, pc, call, pre, acc, err, frozen, shared>>

\* create(path, defaults, ...) for sibling e: self.defaults = dict(defaults) is a
\* dict of its own that holds the FrozenDicts of the table.
CreateSibling(e) ==
    /\ ~sib[e].created
    /\ sib' = [sib EXCEPT ![e] = [created |-> TRUE, outer |-> "own",
                                  items |-> shared.outer, calls |-> <<>>,
                                  err |-> NoError, result |-> NotFrozen]]
    /\ UNCHANGED <<parent, defaults, pc, call, pre, acc, err, frozen, shared>>

\* set_defaults of sibling e.  The values are those of set_defaults; the writes
\* are `.update(raw_values)`, to the dict the scratch dict holds for the kind
\* (one it started with, or the new one of setdefault), and the final loop's, to
\* the dict self.defaults.
SiblingSetDefaults(e, c) ==
    /\ sib[e].created
    /\ sib[e].err = NoError
    /\ Len(sib[e].calls) < MaxSiblingCalls
    /\ LET self_items == SelfItems(e)
           scratch_refs == ScratchRefs(self_items, c.extend)
           r == set_defaults(Contents(self_items), c.args, c.all, c.extend)
           written == { k \in (DOMAIN r.scratch) \cap (DOMAIN scratch_refs) :
                          scratch_refs[k].owner = "parent" }
           inner == [k \in DOMAIN shared.inner |->
                        IF k \in written THEN r.scratch[k] ELSE shared.inner[k]]
           items == IF r.err # NoError THEN self_items
                    ELSE [k \in DOMAIN r.defaults |->
                            IF k \in written THEN scratch_refs[k]
                            ELSE IF k \in DOMAIN r.scratch THEN OwnRef(r.scratch[k])
                            ELSE self_items[k]]
       IN  /\ shared' = [outer |-> IF sib[e].outer = "parent" THEN items
                                   ELSE shared.outer,
                         inner |-> inner]
           /\ sib' = [sib EXCEPT ![e].items = IF sib[e].outer = "parent" THEN @ ELSE items,
                                 ![e].calls = Append(@, c),
                                 ![e].err = r.err]
    /\ UNCHANGED <<parent, defaults, pc, call, pre, acc, err, frozen>>

\* get_frozen_defaults of sibling e, after `at` calls
SiblingGetFrozenDefaults(e) ==
    /\ sib[e].created
    /\ sib[e].err = NoError
    /\ sib' = [sib EXCEPT ![e].result =
                  [at |-> Len(sib[e].calls),
                   table |-> get_frozen_defaults(Contents(SelfItems(e)))]]
    /\ UNCHANGED <<parent, defaults, pc, call, pre, acc, err, frozen, shared>>

NextSiblings ==
    \E e \in Siblings :
        \/ CreateSibling(e)
        \/ \E c \in SiblingCalls : SiblingSetDefaults(e, c)
        \/ SiblingGetFrozenDefaults(e)

SpecSiblings == InitSiblings /\ [][NextSiblings]_vars

---------------------------------------------------------------------------
(* What the claims speak of. *)

\* a set_defaults call has been made and left
Returned == pc \in {"returned", "frozen"} /\ call # NoCall
Succeeded == Returned /\ err = NoError
Raised == Returned /\ err # NoError

\* get_frozen_defaults has returned a table
Frozen == pc = "frozen" /\ frozen # NotFrozen /\ frozen.ok

Range(seq) == { seq[i] : i \in DOMAIN seq }

RegisteredAliases == DOMAIN aliases_to_types

\* the field mapping of kind k in table d; the empty mapping when d has no entry
FieldsOf(d, k) == IF k \in DOMAIN d THEN d[k] ELSE EmptyDict

\* the entries of the positional directives args[1..n], in the caller's order
RECURSIVE EntriesUpTo(_, _)
EntriesUpTo(args, n) ==
    IF n = 0 THEN <<>>
    ELSE EntriesUpTo(args, n - 1) \o (IF args[n].isdict THEN args[n].items ELSE <<>>)

ExplicitEntries(c) == EntriesUpTo(c.args, Len(c.args))

\* entry e names kind k
Names(e, k) == k \in Range(e.target.names)

\* the kinds the explicit directives of call c name
NamedKinds(c) == UNION { Range(e.target.names) : e \in Range(ExplicitEntries(c)) }

\* the positions, among the explicit entries of call c, of those that give
\* field f to kind k
Givers(c, k, f) ==
    LET entries == ExplicitEntries(c)
    IN  { i \in DOMAIN entries :
            /\ Names(entries[i], k)
            /\ entries[i].default.isdict
            /\ f \in DOMAIN entries[i].default.items }

\* the fields the explicit directives of call c give to kind k
ExplicitFields(c, k) == { f \in InputFields : Givers(c, k, f) # {} }

\* the value the last explicit directive that gives field f to kind k gives it
LastValue(c, k, f) ==
    LET givers == Givers(c, k, f)
        last == CHOOSE i \in givers : \A j \in givers : j <= i
    IN  ExplicitEntries(c)[last].default.items[f]

\* the fields the `all` mapping of call c gives to kind k
AllFields(c, k) ==
    IF c.all.isdict /\ k \in RegisteredAliases
    THEN (DOMAIN c.all.items) \cap valid_field_aliases(k)
    ELSE {}

\* the fields and values call c gives to kind k
Given(c, k) ==
    [f \in ExplicitFields(c, k) \cup AllFields(c, k) |->
        IF f \in ExplicitFields(c, k) THEN LastValue(c, k, f) ELSE c.all.items[f]]

---------------------------------------------------------------------------
(* The claims. *)

\* C1: a set_defaults call that raises (a shape error, an unrecognized target
\* type or an unrecognized field) leaves self.defaults as they were when the
\* call was entered, also when directives processed before the failing one
\* were valid.
C1_FailedCallLeavesDefaults == Raised => defaults = pre

\* a failing call whose first directive alone would have changed the defaults
C1_Witness ==
    /\ Raised
    /\ Len(call.args) = 2
    /\ set_defaults(pre, <<call.args[1]>>, None, call.extend).err = NoError
    /\ set_defaults(pre, <<call.args[1]>>, None, call.extend).defaults # pre

\* C2: after a successful set_defaults call with extend=False and no `all`,
\* every kind of the inherited defaults that no directive names keeps its
\* field mapping, in self.defaults and in the frozen table.
C2_UnnamedKindsUntouched ==
    (Succeeded /\ ~call.extend /\ call.all = None) =>
        \A k \in (DOMAIN pre) \ NamedKinds(call) :
            /\ k \in DOMAIN defaults
            /\ defaults[k] = pre[k]
            /\ Frozen => (k \in DOMAIN frozen.value /\ frozen.value[k] = parent[k])

\* a frozen table after a call that names one kind and not another, inherited one
C2_Witness ==
    /\ Frozen /\ Succeeded /\ ~call.extend /\ call.all = None
    /\ NamedKinds(call) # {}
    /\ (DOMAIN pre) \ NamedKinds(call) # {}
    /\ defaults # pre

\* C3, as stated: after a successful call with extend=False self.defaults are
\* the scratch dict of the call less its empty entries, so that the inherited
\* kinds the call does not specify have no entry.
C3_FullReplacement ==
    (Succeeded /\ ~call.extend) =>
        defaults = [k \in { t \in DOMAIN acc : acc[t] # EmptyDict } |-> acc[k]]

\* C3, amended: after a successful call with extend=False every kind of the
\* scratch dict has the scratch dict's field mapping, or no entry when that
\* mapping is empty, and every other kind keeps the entry it had.
C3_PerKindReplacement ==
    (Succeeded /\ ~call.extend) =>
        /\ \A k \in DOMAIN acc :
              IF acc[k] = EmptyDict THEN k \notin DOMAIN defaults
              ELSE k \in DOMAIN defaults /\ defaults[k] = acc[k]
        /\ \A k \in (DOMAIN pre) \ (DOMAIN acc) :
              k \in DOMAIN defaults /\ defaults[k] = pre[k]
        /\ DOMAIN defaults \subseteq (DOMAIN pre) \cup (DOMAIN acc)

\* an inherited kind outlives a call with extend=False that specifies another
C3_Witness ==
    /\ Succeeded /\ ~call.extend
    /\ acc # EmptyDict
    /\ \E k \in DOMAIN pre : k \notin DOMAIN acc /\ k \in DOMAIN defaults

\* the latest call was set_defaults(extend=extend), without any directive, on
\* the engine as `create` made it
NoDirectives(extend) ==
    /\ Returned
    /\ call.args = <<>> /\ call.all = None /\ call.extend = extend
    /\ pre = parent

\* C4, as stated: an engine to which no directive is applied with extend=False
\* freezes to the empty table, whatever its parent.
C4_FreezesToEmpty ==
    (pc = "frozen" /\ (call = NoCall \/ NoDirectives(FALSE))) =>
        frozen.ok /\ frozen.value = EmptyDict

\* C4, amended: an engine to which no directive is applied with extend=False
\* freezes to a table equal to its parent.
C4_FreezesToParent ==
    (pc = "frozen" /\ (call = NoCall \/ NoDirectives(FALSE))) =>
        frozen.ok /\ frozen.value = parent

\* set_defaults() with no argument below a parent that holds defaults, frozen
C4_Witness ==
    pc = "frozen" /\ NoDirectives(FALSE) /\ parent # EmptyDict

\* C5: an engine to which no directive is applied with extend=True freezes to a
\* table equal to its parent.
C5_ExtendFreezesToParent ==
    (pc = "frozen" /\ NoDirectives(TRUE)) => frozen.ok /\ frozen.value = parent

\* set_defaults(extend=True) below a parent with defaults for every kind, frozen
C5_Witness ==
    pc = "frozen" /\ NoDirectives(TRUE) /\ DOMAIN parent = RegisteredAliases

\* C6: after a successful call with extend=False, a kind an explicit directive
\* names holds exactly the fields the call gives it: an inherited field the
\* call does not give is dropped.
C6_NamedKindHoldsGivenFields ==
    (Succeeded /\ ~call.extend) =>
        \A k \in NamedKinds(call) :
            DOMAIN FieldsOf(defaults, k) = ExplicitFields(call, k) \cup AllFields(call, k)

\* a named kind loses an inherited field and keeps an entry
C6_Witness ==
    /\ Succeeded /\ ~call.extend
    /\ \E k \in NamedKinds(call) :
          /\ k \in DOMAIN defaults
          /\ (DOMAIN FieldsOf(pre, k)) \ (DOMAIN defaults[k]) # {}

\* C7: after a successful call with extend=True, every kind's field mapping is
\* its previous one updated with the values the call gives: a field the call
\* gives has the call's value, any other keeps its value, and a kind the call
\* gives nothing keeps its mapping.
C7_ExtendUpdatesFieldByField ==
    (Succeeded /\ call.extend) =>
        \A k \in RegisteredAliases \cup DOMAIN pre \cup DOMAIN defaults :
            FieldsOf(defaults, k) =
                [f \in (DOMAIN FieldsOf(pre, k)) \cup (DOMAIN Given(call, k)) |->
                    IF f \in DOMAIN Given(call, k) THEN Given(call, k)[f]
                    ELSE FieldsOf(pre, k)[f]]

\* a kind keeps one inherited field and gets a new value for another
C7_Witness ==
    /\ Succeeded /\ call.extend
    /\ \E k \in DOMAIN pre :
          /\ \E f \in DOMAIN pre[k] : f \notin DOMAIN Given(call, k)
          /\ \E f \in DOMAIN pre[k] :
                f \in DOMAIN Given(call, k) /\ Given(call, k)[f] # pre[k][f]

\* C8: in a successful call with an `all` mapping and explicit directives, a
\* field of `all` that an explicit directive gives a kind too has the explicit
\* value for that kind, and has the value of `all` for every other registered
\* kind that has the field.
C8_ExplicitOverridesAll ==
    (Succeeded /\ call.all.isdict /\ ExplicitEntries(call) # <<>>) =>
        \A k \in RegisteredAliases : \A f \in AllFields(call, k) :
            /\ f \in DOMAIN FieldsOf(defaults, k)
            /\ defaults[k][f] = IF f \in ExplicitFields(call, k)
                                THEN LastValue(call, k, f)
                                ELSE call.all.items[f]

\* `all` and an explicit directive give one kind different values of a field
\* that another kind gets from `all` alone
C8_Witness ==
    /\ Succeeded /\ call.all.isdict
    /\ \E k1, k2 \in RegisteredAliases : \E f \in AllFields(call, k1) :
          /\ k1 # k2
          /\ f \in ExplicitFields(call, k1)
          /\ LastValue(call, k1, f) # call.all.items[f]
          /\ f \in AllFields(call, k2) \ ExplicitFields(call, k2)

\* C9: when several explicit directives of a successful call give the same
\* field to the same kind, the result holds the value of the last of them; a
\* field that no later directive gives again keeps the value it was given.
C9_LastDirectiveWins ==
    Succeeded =>
        \A k \in RegisteredAliases : \A f \in ExplicitFields(call, k) :
            /\ f \in DOMAIN FieldsOf(defaults, k)
            /\ defaults[k][f] = LastValue(call, k, f)

\* two directives of a call give one field of a kind two different values
C9_Witness ==
    /\ Succeeded
    /\ \E k \in RegisteredAliases : \E f \in ExplicitFields(call, k) :
          \E i, j \in Givers(call, k, f) :
              /\ i < j
              /\ ExplicitEntries(call)[i].default.items[f]
                    # ExplicitEntries(call)[j].default.items[f]

\* C10: after a successful call with the default extend, a kind of the
\* inherited defaults to which the call gives the empty mapping only has no
\* entry, in self.defaults and in the frozen table.
C10_EmptyMappingResets ==
    (Succeeded /\ ~call.extend) =>
        \A k \in (DOMAIN pre) \cap NamedKinds(call) :
            (ExplicitFields(call, k) \cup AllFields(call, k) = {}) =>
                /\ k \notin DOMAIN defaults
                /\ Frozen => k \notin DOMAIN frozen.value

\* the frozen table after a call that gives {} to a kind with inherited defaults
C10_Witness ==
    /\ Frozen /\ Succeeded /\ ~call.extend
    /\ \E k \in (DOMAIN parent) \cap NamedKinds(call) :
          ExplicitFields(call, k) \cup AllFields(call, k) = {}

\* C11: after a successful set_defaults(all=X) with extend=False and no
\* positional directive, every registered kind holds exactly the fields of X
\* that are valid for it, with the values of X, and a registered kind for
\* which no field of X is valid has no entry, whatever it held before.
C11_AllReplaces ==
    (Succeeded /\ ~call.extend /\ call.all.isdict /\ call.args = <<>>) =>
        /\ \A k \in RegisteredAliases :
              /\ FieldsOf(defaults, k) = [f \in AllFields(call, k) |-> call.all.items[f]]
              /\ AllFields(call, k) = {} => k \notin DOMAIN defaults
        /\ DOMAIN defaults \subseteq RegisteredAliases

\* set_defaults(all=X): one kind loses a field it held that X does not give, and
\* another kind, with defaults before and no valid field in X, loses its entry
C11_Witness ==
    /\ Succeeded /\ ~call.extend /\ call.all.isdict /\ call.args = <<>>
    /\ \E k \in DOMAIN pre : AllFields(call, k) = {} /\ k \notin DOMAIN defaults
    /\ \E k \in DOMAIN pre :
          /\ k \in DOMAIN defaults
          /\ (DOMAIN pre[k]) \ (DOMAIN defaults[k]) # {}

\* the faults of a call, by kind: a positional directive or a value that is no
\* dict, an alias of an explicit directive that is not registered, and a field
\* of an explicit directive that a registered kind it names does not have
ShapeFault(c) ==
    \/ \E i \in DOMAIN c.args : ~c.args[i].isdict
    \/ \E e \in Range(ExplicitEntries(c)) : ~e.default.isdict
    \/ c.all # None /\ ~c.all.isdict

UnknownKindFault(c) == NamedKinds(c) \ RegisteredAliases # {}

\* entry e gives the registered kind k the field f, which k does not have
GivesUnknownField(e, k, f) ==
    /\ e.default.isdict
    /\ Names(e, k) /\ k \in RegisteredAliases
    /\ f \in DOMAIN e.default.items
    /\ f \notin valid_field_aliases(k)

UnknownFieldFault(c) ==
    \E e \in Range(ExplicitEntries(c)) : \E k \in RegisteredAliases :
        \E f \in InputFields : GivesUnknownField(e, k, f)

\* C12: a call with an explicit directive that gives a kind a field the kind
\* does not have raises, and what it raises is the unrecognized-field error for
\* such a field and kind when the call has no fault of another sort; a call
\* with an `all` mapping and no fault in its explicit directives returns, and
\* every field of `all` is absent from every registered kind that lacks it and
\* present in every registered kind that has it.
C12_UnknownFieldByCallSite ==
    Returned =>
        LET unknown_field == UnknownFieldFault(call)
            other_fault == ShapeFault(call) \/ UnknownKindFault(call)
        IN  /\ unknown_field =>
                  /\ Raised
                  /\ ~other_fault =>
                        /\ err.error = "InvalidFieldException"
                        /\ err.reason = "unrecognized field"
                        /\ \E e \in Range(ExplicitEntries(call)) :
                              GivesUnknownField(e, err.target_alias, err.field_alias)
            /\ (call.all.isdict /\ ~other_fault /\ ~unknown_field) =>
                  /\ Succeeded
                  /\ \A k \in RegisteredAliases : \A f \in DOMAIN call.all.items :
                        f \in valid_field_aliases(k) <=> f \in DOMAIN FieldsOf(defaults, k)

\* the same field, unknown to one kind: given by `all` it is dropped for that
\* kind and kept for the other
C12_Witness ==
    /\ Succeeded /\ call.all.isdict
    /\ \E k1, k2 \in RegisteredAliases : \E f \in DOMAIN call.all.items :
          /\ f \notin valid_field_aliases(k1)
          /\ f \notin DOMAIN FieldsOf(defaults, k1)
          /\ f \in valid_field_aliases(k2)
          /\ f \in DOMAIN FieldsOf(defaults, k2)

\* C13: a call with an explicit directive that names an alias that is not
\* registered, alone or in a tuple, with an empty field mapping or any other,
\* raises, and what it raises is the unrecognized-target error that names an
\* unregistered alias of the call when the call has no fault of another sort.
C13_UnknownKindRaises ==
    (Returned /\ UnknownKindFault(call)) =>
        /\ Raised
        /\ (~ShapeFault(call) /\ ~UnknownFieldFault(call)) =>
              /\ err.error = "ValueError"
              /\ err.reason = "unrecognized target type"
              /\ err.target_alias \in NamedKinds(call) \ RegisteredAliases

\* the unregistered alias is a member of a tuple whose field mapping is empty
C13_Witness ==
    /\ Raised /\ err.reason = "unrecognized target type"
    /\ \E e \in Range(ExplicitEntries(call)) :
          /\ e.target.tuple
          /\ err.target_alias \in Range(e.target.names)
          /\ e.default = Dict(EmptyDict)

\* the type names of what a call gives in the place of a dict
NonDictArgTypes(c) ==
    { c.args[i].typename : i \in { j \in DOMAIN c.args : ~c.args[j].isdict } }

NonDictValueTypes(c) ==
    { e.default.typename : e \in { x \in Range(ExplicitEntries(c)) : ~x.default.isdict } }
        \cup (IF c.all = None \/ c.all.isdict THEN {} ELSE {c.all.typename})

\* C14: a call with a positional directive that is no dict, or with a value
\* (of a directive, or of `all`) that is no dict, raises, and what it raises is
\* a ValueError that holds the name of the type given when the call has no
\* fault of another sort.
C14_ShapeErrorNamesType ==
    (Returned /\ ShapeFault(call)) =>
        /\ Raised
        /\ (~UnknownKindFault(call) /\ ~UnknownFieldFault(call)) =>
              /\ err.error = "ValueError"
              /\ \/ /\ err.reason = "expected dictionary"
                    /\ err.typename \in NonDictArgTypes(call)
                 \/ /\ err.reason = "invalid default field values"
                    /\ err.typename \in NonDictValueTypes(call)

\* a list in the place of a directive, after a directive that is valid
C14_Witness ==
    /\ Raised /\ err.reason = "expected dictionary"
    /\ Len(call.args) = 2
    /\ call.args[1].isdict /\ call.args[1].items # <<>>
    /\ ~call.args[2].isdict

\* the raw values of table d that the field type of their field rejects
Rejected(d) ==
    { it \in UNION { FrozenItems(t, d[t]) : t \in DOMAIN d } : ~it.computed.ok }

\* C15, as stated: a set_defaults call that returns is never followed by a
\* get_frozen_defaults that raises.
C15_CoercionFailsInApply ==
    (pc = "frozen" /\ Succeeded) => frozen.ok

\* C15, amended: set_defaults never raises the error of a coercion, and a call
\* that gives a value its field type rejects returns with that value in
\* self.defaults; it is get_frozen_defaults that raises the error of the
\* coercion, exactly when self.defaults hold a value that is rejected.
C15_CoercionFailsAtFreeze ==
    /\ Returned => err \notin { it.computed.value : it \in Rejected(acc) }
    /\ pc = "frozen" =>
          /\ frozen.ok <=> Rejected(defaults) = {}
          /\ ~frozen.ok => frozen.value \in { it.computed.value : it \in Rejected(defaults) }

\* a call gave a value that is rejected, returned and changed self.defaults,
\* and the freeze raised
C15_Witness ==
    /\ pc = "frozen" /\ Succeeded
    /\ defaults # pre
    /\ Rejected(pre) = {}
    /\ ~frozen.ok

\* C16: every get_frozen_defaults leaves self.defaults as they are and yields
\* the table of the self.defaults of that moment, whatever calls were made
\* since the last one, and a get_frozen_defaults that follows another yields
\* an equal table.
C16_FreezeIsPure ==
    [][pc' = "frozen" =>
          /\ defaults' = defaults
          /\ frozen' = get_frozen_defaults(defaults)
          /\ pc = "frozen" => frozen' = frozen]_vars

\* a table frozen after two calls of one BUILD file, from raw values that are
\* not what the table holds
C16_Witness ==
    /\ pc = "frozen" /\ frozen.ok
    /\ Succeeded /\ pre # parent /\ defaults # pre
    /\ defaults # frozen.value

\* the alias under which the table holds what self.defaults hold for kind k
\* under field_alias
CanonicalAliases(k, field_alias) ==
    { ft.alias : ft \in MatchingFieldTypes(k, field_alias) }

ValidTable(d) ==
    \A k \in DOMAIN d :
        /\ k \in RegisteredAliases
        /\ DOMAIN d[k] \subseteq valid_field_aliases(k)

\* C18: after any sequence of calls in any chain of BUILD files, every kind of
\* a frozen table is registered and has every field the table gives it; so it
\* is with self.defaults, from which no field is lost when they are frozen.
C18_TablesAreValid ==
    /\ ValidTable(parent)
    /\ ValidTable(defaults)
    /\ (pc = "frozen" /\ frozen.ok) => ValidTable(frozen.value)

\* a table frozen below a parent with defaults, after a call whose `all` mapping
\* held a field that a registered kind lacks
C18_Witness ==
    /\ pc = "frozen" /\ frozen.ok /\ frozen.value # EmptyDict
    /\ parent # EmptyDict
    /\ Succeeded /\ call.all.isdict
    /\ \E k \in RegisteredAliases : (DOMAIN call.all.items) \ valid_field_aliases(k) # {}

\* the fields and values a call of a BUILD file of several statements gives
\* kind k
SeqGiven(c, k) ==
    LET explicit == { f \in SeqInputFields : Givers(c, k, f) # {} }
    IN  [f \in explicit \cup AllFields(c, k) |->
            IF f \in explicit THEN LastValue(c, k, f) ELSE c.all.items[f]]

\* C20: a set_defaults call works on self.defaults as the calls before it left
\* them: with extend=True every kind's field mapping is the one it had when the
\* call was entered, updated with what the call gives, and a call that raises
\* leaves self.defaults as the calls before it left them.
C20_DefaultsPersistAcrossCalls ==
    [][pc' = "returned" =>
          /\ err' # NoError => defaults' = defaults
          /\ (err' = NoError /\ call'.extend) =>
                \A k \in RegisteredAliases \cup DOMAIN defaults \cup DOMAIN defaults' :
                    FieldsOf(defaults', k) =
                        [f \in (DOMAIN FieldsOf(defaults, k))
                                 \cup (DOMAIN SeqGiven(call', k)) |->
                            IF f \in DOMAIN SeqGiven(call', k) THEN SeqGiven(call', k)[f]
                            ELSE FieldsOf(defaults, k)[f]]]_vars

\* a call with extend=True kept a field that an earlier call of the same BUILD
\* file gave and the parent does not hold
C20_Witness ==
    /\ Succeeded /\ call.extend /\ defaults # pre
    /\ \E k \in DOMAIN pre : \E f \in DOMAIN pre[k] :
          /\ f \notin DOMAIN FieldsOf(parent, k)
          /\ f \notin DOMAIN SeqGiven(call, k)
          /\ f \in DOMAIN FieldsOf(defaults, k)

\* a call that raises after an earlier call of the same BUILD file changed the
\* defaults
C20_WitnessRaised ==
    Raised /\ pre # parent /\ defaults = pre

\* self.defaults of an engine created from `table` after the first n of `calls`
RECURSIVE RunAlone(_, _, _)
RunAlone(table, calls, n) ==
    IF n = 0 THEN table
    ELSE set_defaults(RunAlone(table, calls, n - 1),
                      calls[n].args, calls[n].all, calls[n].extend).defaults

\* C19: however the calls of the engines created from one table interleave,
\* the table holds what it was built with, and self.defaults and the frozen
\* tables of each engine are those of the engine making its calls alone.
C19_SharedParentNeverMutated ==
    /\ Contents(shared.outer) = parent
    /\ shared.inner = parent
    /\ \A e \in Siblings : sib[e].created =>
          /\ Contents(SelfItems(e)) = RunAlone(parent, sib[e].calls, Len(sib[e].calls))
          /\ sib[e].result # NotFrozen =>
                sib[e].result.table =
                    get_frozen_defaults(RunAlone(parent, sib[e].calls, sib[e].result.at))

\* both siblings changed defaults of a kind the table holds, one with
\* extend=True, and froze to tables that differ from each other and from the
\* table they were created from
C19_Witness ==
    /\ \A e \in Siblings :
          /\ sib[e].created /\ sib[e].calls # <<>>
          /\ sib[e].result # NotFrozen /\ sib[e].result.table.ok
          /\ sib[e].result.table.value # parent
    /\ sib[1].result.table # sib[2].result.table
    /\ \E i \in DOMAIN sib[1].calls : sib[1].calls[i].extend /\ sib[1].calls[i].args # <<>>

\* entry e as one entry for each alias of its key, in the order of the key
SplitEntry(e) ==
    [i \in 1..Len(e.target.names) |->
        [target |-> Key(e.target.names[i]), default |-> e.default]]

RECURSIVE SplitEntries(_, _)
SplitEntries(entries, n) ==
    IF n = 0 THEN <<>>
    ELSE SplitEntries(entries, n - 1) \o SplitEntry(entries[n])

\* the positional directives `args` with every entry split
SplitArgs(args) ==
    [i \in DOMAIN args |->
        IF args[i].isdict THEN Dict(SplitEntries(args[i].items, Len(args[i].items)))
        ELSE args[i]]

\* C21: a call leaves self.defaults, and the scratch dict, as the call does
\* whose tuple keys are given as one entry for each alias, in the order of the
\* tuple, and raises when that call does (the same error, but for the key that
\* the error of a value that is no dict names); and when a later entry gives
\* one kind of a tuple another value of a field, the other kinds of the tuple
\* keep the value the tuple gave them.
C21_TupleKeyAsSeparateEntries ==
    Returned =>
        LET r == set_defaults(pre, SplitArgs(call.args), call.all, call.extend)
            entries == ExplicitEntries(call)
        IN  /\ r.defaults = defaults
            /\ r.scratch = acc
            /\ \/ r.err = err
               \/ /\ Raised /\ r.err # NoError
                  /\ err.reason = "invalid default field values"
                  /\ r.err.reason = err.reason /\ r.err.typename = err.typename
            /\ Succeeded =>
                  \A i \in DOMAIN entries : \A k1, k2 \in Range(entries[i].target.names) :
                      \A f \in DOMAIN entries[i].default.items :
                          (/\ k1 # k2
                           /\ \A j \in Givers(call, k2, f) : j <= i) =>
                              defaults[k2][f] = entries[i].default.items[f]

\* a tuple of two kinds gave both a value of a field, and a later entry gave
\* one of them another value
C21_Witness ==
    /\ Succeeded
    /\ \E i \in DOMAIN ExplicitEntries(call) :
          LET e == ExplicitEntries(call)[i]
          IN  /\ e.target.tuple
              /\ \E k1, k2 \in Range(e.target.names) : \E f \in DOMAIN e.default.items :
                    /\ k1 # k2
                    /\ \A j \in Givers(call, k2, f) : j <= i
                    /\ \E j \in Givers(call, k1, f) : j > i
                    /\ defaults[k1][f] # defaults[k2][f]

\* the explicit directives of call c give kind k the empty mapping
GivesEmptyMapping(c, k) ==
    \E e \in Range(ExplicitEntries(c)) :
        Names(e, k) /\ e.default.isdict /\ e.default.items = EmptyDict

\* C22: after a successful call with extend=True, a kind of the inherited
\* defaults that the call gives the empty mapping, and no field, has the entry
\* it had before the call; and a kind that a successful call gives the empty
\* mapping is gone from self.defaults only when the scratch dict of the call
\* ends with the empty mapping for the kind.
C22_EmptyMappingKeepsInherited ==
    Succeeded =>
        \A k \in DOMAIN pre :
            GivesEmptyMapping(call, k) =>
                /\ (call.extend /\ ExplicitFields(call, k) \cup AllFields(call, k) = {}) =>
                      (k \in DOMAIN defaults /\ defaults[k] = pre[k])
                /\ k \notin DOMAIN defaults => (k \in DOMAIN acc /\ acc[k] = EmptyDict)

\* a call with extend=True gave the empty mapping, and nothing else, to a kind
\* with inherited defaults
C22_Witness ==
    /\ Succeeded /\ call.extend
    /\ \E k \in DOMAIN pre :
          /\ GivesEmptyMapping(call, k)
          /\ ExplicitFields(call, k) \cup AllFields(call, k) = {}
          /\ pre[k] # EmptyDict
          /\ defaults[k] = pre[k]

\* no kind of table d has the empty mapping
NoEmptyMapping(d) == \A k \in DOMAIN d : d[k] # EmptyDict

\* C23: in any chain of BUILD files from the empty table, after any sequence of
\* calls, the last of which may have raised, no kind of self.defaults, of the
\* parent table or of a frozen table has the empty mapping.
C23_NoEmptyPlaceholders ==
    /\ NoEmptyMapping(parent)
    /\ NoEmptyMapping(defaults)
    /\ (pc = "frozen" /\ frozen.ok) => NoEmptyMapping(frozen.value)

\* a table frozen after a call whose scratch dict ended with the empty mapping
\* for a kind that had defaults before the call, below a parent with defaults
C23_Witness ==
    /\ pc = "frozen" /\ frozen.ok
    /\ parent # EmptyDict
    /\ Succeeded
    /\ \E k \in DOMAIN acc :
          /\ acc[k] = EmptyDict
          /\ k \in DOMAIN pre
          /\ k \notin DOMAIN defaults
          /\ k \notin DOMAIN frozen.value

\* a call raised after an earlier call of the BUILD file had dropped a kind
C23_WitnessRaised ==
    /\ Raised
    /\ \E k \in DOMAIN parent : k \notin DOMAIN defaults

\* What call c is given, item by item in the order of processing: the `all`
\* mapping as an entry for every kind, then the positional directives in the
\* caller's order, a dict as its entries in order and anything else as one item.
DirectiveItems(d) ==
    IF d.isdict
    THEN [i \in DOMAIN d.items |->
             [directive |-> FALSE, target |-> d.items[i].target,
              default |-> d.items[i].default, all |-> FALSE]]
    ELSE << [directive |-> TRUE, target |-> None, default |-> d, all |-> FALSE] >>

RECURSIVE ItemsUpTo(_, _)
ItemsUpTo(args, n) ==
    IF n = 0 THEN <<>> ELSE ItemsUpTo(args, n - 1) \o DirectiveItems(args[n])

Items(c) ==
    (IF c.all = None THEN <<>>
     ELSE << [directive |-> FALSE, target |-> TupleKey(aliases),
              default |-> c.all, all |-> TRUE] >>)
    \o ItemsUpTo(c.args, Len(c.args))

\* the fields of mapping m that kind k lacks; none for a kind that is not known
InvalidFields(k, m) ==
    IF k \in RegisteredAliases THEN (DOMAIN m) \ valid_field_aliases(k) ELSE {}

First(S) == CHOOSE i \in S : \A j \in S : i <= j

\* What is wrong with one item, when each alias of the key is looked up and has
\* its fields validated before the next alias is looked at.
FaultByAlias(item) ==
    IF item.directive THEN ExpectedDictError(item.default)
    ELSE IF ~item.default.isdict THEN InvalidDefaultError(item.target, item.default)
    ELSE LET names == item.target.names
             m == item.default.items
             faulty == { i \in DOMAIN names :
                           \/ names[i] \notin RegisteredAliases
                           \/ ~item.all /\ InvalidFields(names[i], m) # {} }
         IN  IF faulty = {} THEN NoError
             ELSE LET k == names[First(faulty)]
                  IN  IF k \notin RegisteredAliases THEN UnrecognizedTargetError(k)
                      ELSE UnrecognizedFieldError(CHOOSE f \in InvalidFields(k, m) : TRUE, k)

\* What is wrong with one item, when every alias of the key is looked up before
\* any field is validated.
FaultKindsFirst(item) ==
    IF item.directive THEN ExpectedDictError(item.default)
    ELSE IF ~item.default.isdict THEN InvalidDefaultError(item.target, item.default)
    ELSE LET names == item.target.names
             m == item.default.items
             unregistered == { i \in DOMAIN names : names[i] \notin RegisteredAliases }
             invalid == { i \in DOMAIN names : ~item.all /\ InvalidFields(names[i], m) # {} }
         IN  IF unregistered # {} THEN UnrecognizedTargetError(names[First(unregistered)])
             ELSE IF invalid # {}
             THEN LET k == names[First(invalid)]
                  IN  UnrecognizedFieldError(CHOOSE f \in InvalidFields(k, m) : TRUE, k)
             ELSE NoError

\* the positions of the items of call c with which something is wrong
FaultyItems(c) == { i \in DOMAIN Items(c) : FaultByAlias(Items(c)[i]) # NoError }

\* C24, as the claim states it: a call raises what is wrong with the first item
\* with which something is wrong, where within an entry the value is checked to
\* be a dict, then the aliases of the key to be registered, then the fields to
\* be valid.
C24_ChecksInFixedOrder ==
    Returned =>
        LET items == Items(call)
            faulty == { i \in DOMAIN items : FaultKindsFirst(items[i]) # NoError }
        IN  err = IF faulty = {} THEN NoError ELSE FaultKindsFirst(items[First(faulty)])

\* C24: a call raises what is wrong with the first item with which something is
\* wrong (the `all` mapping, then the positional directives in order, then the
\* entries of a directive in order), where within an entry the value is checked
\* to be a dict, and then each alias of the key in turn is checked to be
\* registered and its fields to be valid; a call raises nothing when nothing
\* is wrong.
C24_FirstFaultByAlias ==
    Returned =>
        LET items == Items(call)
            faulty == FaultyItems(call)
        IN  err = IF faulty = {} THEN NoError ELSE FaultByAlias(items[First(faulty)])

\* a call raised for an entry whose tuple key names a registered kind that
\* lacks a field of the value and then a kind that is not registered, and a
\* later item of the call has another fault
C24_Witness ==
    /\ Raised
    /\ LET items == Items(call)
           faulty == FaultyItems(call)
           first == items[First(faulty)]
       IN  /\ \E i \in faulty : FaultByAlias(items[i]) # FaultByAlias(first)
           /\ ~first.directive /\ first.default.isdict
           /\ \E k \in Range(first.target.names) : k \notin RegisteredAliases
           /\ err.reason = "unrecognized field"

\* a call raised for an entry that gives a kind that is not registered a value
\* that is no dict: what it raised names the type of the value
C24_WitnessShape ==
    /\ Raised
    /\ LET first == Items(call)[First(FaultyItems(call))]
       IN  /\ ~first.directive /\ ~first.default.isdict
           /\ \E k \in Range(first.target.names) : k \notin RegisteredAliases
    /\ err.reason = "invalid default field values"

====
